---------------------------- MODULE Spec2Model ----------------------------
(***************************************************************************)
(* The Interactive Finance Tracker (PersonalFinanceTracker-complete-fix.py)*)
(* as a state machine.  The script is re-run from the top after every      *)
(* button press; what survives a re-run is st.session_state: the list      *)
(* `transactions` and the edit reference `editing_index`.  Each action of  *)
(* Spec is one button handler; its guard says that the run of the script   *)
(* that displays the button gets as far as the button.  The dashboard a    *)
(* run displays is plot_dashboard(transactions), a function of the state;  *)
(* DashSpec applies that function to every list up to MaxDashLen.          *)
(*                                                                         *)
(* Amounts are Python floats.  A float is modelled as an integer number of *)
(* cents that carries at most `Precision` significant bits; every float    *)
(* operation rounds its exact result to the nearest such number (ties to   *)
(* even), as IEEE-754 does with 53 bits.                                   *)
(***************************************************************************)
EXTENDS Integers, Sequences, FiniteSets, TLC

VARIABLES
    transactions,   \* st.session_state.transactions
    editing_index,  \* st.session_state.editing_index
    figure,         \* the dashboard plotted by DashSpec (unused by Spec)
    hist            \* history of the session (not program state)

vars == <<transactions, editing_index, figure, hist>>

---------------------------------------------------------------------------
(* Bounds of the model *)

\* significant bits of a float (53 in the program)
Precision == 2
\* number of transactions added in one session
MaxAdds == 3
\* length of the lists the dashboard is computed for on its own
MaxDashLen == 3

---------------------------------------------------------------------------
(* Program constants *)

None == -1
\* a marker of `hist.sel`: the selected transaction has been deleted
Gone == None - 1

income_categories ==
    << "Salary", "Business/Profession", "Interest", "Dividends",
       "Capital Gains", "Rental", "Other Asset Income",
       "Refunds/Reimbursements", "Gifts", "Transfers In", "Other/One time" >>

expense_categories ==
    << "Rent", "Home Loan", "Vehicle loan", "Transport", "Outside Food",
       "Groceries", "Utilities", "Insurance", "Health", "Family & Education",
       "Lifestyle", "Travel", "Fuel", "Taxes", "Savings & Investments",
       "House help & Services", "One-time", "Transfers Out", "Other/One time" >>

\* options of the "Type:" selectbox
TypeOptions == << "Income", "Expense" >>

\* min_value of the "Amount:" number_input, in cents
MinValue == 1
\* default_amount of the empty form (0.0)
DefaultAmount == 0

Range(s) == { s[i] : i \in 1..Len(s) }

\* str.lower() on the options of the type selectbox
Lower(s) == CASE s = "Income" -> "income"
              [] s = "Expense" -> "expense"

---------------------------------------------------------------------------
(* Float arithmetic *)

RECURSIVE Pow2(_)
Pow2(k) == IF k = 0 THEN 1 ELSE 2 * Pow2(k - 1)

\* the exponent of the unit in the last place of a magnitude n
RECURSIVE Ulp(_, _)
Ulp(n, e) == IF n < Pow2(Precision + e) THEN e ELSE Ulp(n, e + 1)

\* round a magnitude to Precision significant bits, ties to even
RoundAbs(n) ==
    LET q  == Pow2(Ulp(n, 0))
        m  == n \div q
        lo == m * q
        r  == n - lo
    IN  IF 2 * r < q THEN lo
        ELSE IF 2 * r > q THEN lo + q
        ELSE IF m % 2 = 0 THEN lo ELSE lo + q

FRound(n) == IF n < 0 THEN 0 - RoundAbs(0 - n) ELSE RoundAbs(n)

FAdd(a, b) == FRound(a + b)
FSub(a, b) == FRound(a - b)

Max(a, b) == IF a >= b THEN a ELSE b
Min(a, b) == IF a <= b THEN a ELSE b

---------------------------------------------------------------------------
(* Python dicts: insertion-ordered key/value pairs *)

DictHas(d, k) == \E i \in 1..Len(d) : d[i].key = k

DictGet(d, k, dflt) ==
    IF DictHas(d, k)
    THEN d[CHOOSE i \in 1..Len(d) : d[i].key = k].value
    ELSE dflt

DictSet(d, k, v) ==
    IF DictHas(d, k)
    THEN [i \in 1..Len(d) |->
             IF d[i].key = k THEN [key |-> k, value |-> v] ELSE d[i]]
    ELSE Append(d, [key |-> k, value |-> v])

\* sum(d.values())
RECURSIVE SumValues(_, _)
SumValues(d, n) ==
    IF n = 0 THEN 0 ELSE FAdd(SumValues(d, n - 1), d[n].value)

---------------------------------------------------------------------------
(* plot_dashboard *)

\* the body of the loop over the transactions: one transaction is added
\* to the dict of its type
AccumulateIgnoringType(by, t) ==
    [by EXCEPT !.income =
        DictSet(@, t.category, FAdd(DictGet(@, t.category, 0), t.amount))]

Accumulate(by, t) ==
    IF t.type = "income"
    THEN [by EXCEPT !.income =
             DictSet(@, t.category, FAdd(DictGet(@, t.category, 0), t.amount))]
    ELSE [by EXCEPT !.expense =
             DictSet(@, t.category, FAdd(DictGet(@, t.category, 0), t.amount))]

RECURSIVE by_cat(_, _)
by_cat(ts, n) ==
    IF n = 0 THEN [income |-> << >>, expense |-> << >>]
    ELSE Accumulate(by_cat(ts, n - 1), ts[n])

savings_min(balance) == Min(0, balance)

savings(balance) == Max(0, balance)

display_expense_uncapped(total_expense, total_income) == total_expense

display_expense(total_expense, total_income) == Min(total_expense, total_income)

\* the third chart: the branch taken and, where they are computed, the
\* two numbers of the pie
Allocation(total_income, total_expense, balance) ==
    IF total_income > 0
    THEN LET s == savings(balance)
             d == display_expense(total_expense, total_income)
         IN  [ branch          |-> IF d > 0 \/ s > 0 THEN "pie" ELSE "empty",
               display_expense |-> d,
               savings         |-> s ]
    ELSE [ branch |-> "no income" ]

plot_dashboard(ts) ==
    LET by            == by_cat(ts, Len(ts))
        total_income  == SumValues(by.income, Len(by.income))
        total_expense == SumValues(by.expense, Len(by.expense))
        balance       == FSub(total_income, total_expense)
    IN  [ status         |-> "dashboard",
          income_by_cat  |-> by.income,
          expense_by_cat |-> by.expense,
          total_income   |-> total_income,
          total_expense  |-> total_expense,
          balance        |-> balance,
          income_chart   |-> IF total_income > 0 THEN "pie" ELSE "no data",
          expense_chart  |-> IF total_expense > 0 THEN "pie" ELSE "no data",
          allocation     |-> Allocation(total_income, total_expense, balance) ]

\* no dashboard has been plotted
NoFigure ==
    [ status         |-> "none",
      income_by_cat  |-> << >>,
      expense_by_cat |-> << >>,
      total_income   |-> 0,
      total_expense  |-> 0,
      balance        |-> 0,
      income_chart   |-> "none",
      expense_chart  |-> "none",
      allocation     |-> [ branch |-> "none" ] ]

---------------------------------------------------------------------------
(* The input form *)

\* the lookup of the transaction being edited succeeds
LookupOK(ts, ei) == ei = None \/ ei \in 0..(Len(ts) - 1)

transaction == transactions[editing_index + 1]

categories(trans_type) ==
    IF trans_type = "Income" THEN income_categories ELSE expense_categories

default_cat_list ==
    IF transaction.type = "income" THEN income_categories ELSE expense_categories

\* list.index
IndexOf(list, x) == (CHOOSE i \in 1..Len(list) : list[i] = x) - 1

default_type_index ==
    IF editing_index # None
    THEN (IF transaction.type = "income" THEN 0 ELSE 1)
    ELSE 0

default_cat_index ==
    IF editing_index # None
    THEN IndexOf(default_cat_list, transaction.category)
    ELSE 0

default_amount ==
    IF editing_index # None THEN transaction.amount ELSE DefaultAmount

\* The form is displayed, down to the Save button, with trans_type
\* selected: the lookup of the edited transaction succeeds, its category
\* is found in the list of its type, and the category selectbox accepts
\* default_cat_index as an index into the categories of trans_type.
FormRenders(trans_type) ==
    /\ LookupOK(transactions, editing_index)
    /\ editing_index # None => transaction.category \in Range(default_cat_list)
    /\ default_cat_index < Len(categories(trans_type))

\* the script runs down to the list of transactions
PageRenders == \E trans_type \in Range(TypeOptions) : FormRenders(trans_type)

\* the categories the user picks from, by their position in the selectbox
CategoryChoices(trans_type) == { 0, Len(categories(trans_type)) - 1 }

\* the amounts the user types into the number_input
Amounts == { MinValue }

\* the value of the number_input: what the user typed, which the widget
\* keeps at or above min_value, or the value it was created with, left
\* untouched.  The script passes value=default_amount unchecked, so for the
\* empty form that value is 0.0, below min_value.
AmountInputs == { a \in Amounts : a >= MinValue } \cup { default_amount }

new_transaction_keeps_category(trans_type, cat_index, trans_amount) ==
    [ type     |-> Lower(trans_type),
      category |-> IF editing_index # None
                   THEN transaction.category
                   ELSE categories(trans_type)[cat_index + 1],
      amount   |-> trans_amount ]

new_transaction(trans_type, cat_index, trans_amount) ==
    [ type     |-> Lower(trans_type),
      category |-> categories(trans_type)[cat_index + 1],
      amount   |-> trans_amount ]

---------------------------------------------------------------------------
(* History *)

\* where the transaction selected by Edit is after transaction j is popped
SelAfterPop(s, j) ==
    IF s = None \/ s = Gone THEN s
    ELSE IF j < s THEN s - 1
    ELSE IF j = s THEN Gone
    ELSE s

HistInit ==
    [ op |-> "init", adds |-> 0, deletes |-> 0, sel |-> None,
      wrong |-> FALSE, retyped |-> FALSE ]

---------------------------------------------------------------------------
(* Actions *)

Init ==
    /\ transactions = << >>
    /\ editing_index = None
    /\ figure = NoFigure
    /\ hist = HistInit

UpdateKeepsIndex(trans_type, cat_index, trans_amount) ==
    /\ editing_index # None
    /\ transactions' = [transactions EXCEPT ![editing_index + 1] =
                            new_transaction(trans_type, cat_index, trans_amount)]
    /\ UNCHANGED editing_index
    /\ hist' = [hist EXCEPT !.op = "update", !.sel = None,
                            !.wrong = (hist.sel # editing_index),
                            !.retyped = (transaction.type # Lower(trans_type))]

\* "Save Transaction" pressed, editing_index set: the entry is replaced
Update(trans_type, cat_index, trans_amount) ==
    /\ editing_index # None
    /\ transactions' = [transactions EXCEPT ![editing_index + 1] =
                            new_transaction(trans_type, cat_index, trans_amount)]
    /\ editing_index' = None
    /\ hist' = [hist EXCEPT !.op = "update", !.sel = None,
                            !.wrong = (hist.sel # editing_index),
                            !.retyped = (transaction.type # Lower(trans_type))]

\* "Save Transaction" pressed, no edit in progress: the entry is appended
Add(trans_type, cat_index, trans_amount) ==
    /\ editing_index = None
    /\ hist.adds < MaxAdds
    /\ transactions' = Append(transactions,
                              new_transaction(trans_type, cat_index, trans_amount))
    /\ UNCHANGED editing_index
    /\ hist' = [hist EXCEPT !.op = "add", !.adds = @ + 1,
                            !.wrong = FALSE, !.retyped = FALSE]

Save(trans_type, cat_index, trans_amount) ==
    /\ FormRenders(trans_type)
    /\ cat_index \in 0..(Len(categories(trans_type)) - 1)
    /\ trans_amount \in AmountInputs
    /\ \/ Update(trans_type, cat_index, trans_amount)
       \/ Add(trans_type, cat_index, trans_amount)
    /\ UNCHANGED figure

\* the Edit button of row i
Edit(i) ==
    /\ PageRenders
    /\ i \in 0..(Len(transactions) - 1)
    /\ editing_index' = i
    /\ UNCHANGED transactions
    /\ hist' = [hist EXCEPT !.op = "edit", !.sel = i,
                            !.wrong = FALSE, !.retyped = FALSE]
    /\ UNCHANGED figure

PopLast(ts, i) == [k \in 1..(Len(ts) - 1) |-> ts[k]]

\* list.pop(i)
Pop(ts, i) == [k \in 1..(Len(ts) - 1) |-> IF k <= i THEN ts[k] ELSE ts[k + 1]]

DeleteShiftsReference(i) ==
    /\ PageRenders
    /\ i \in 0..(Len(transactions) - 1)
    /\ transactions' = Pop(transactions, i)
    /\ editing_index' = IF editing_index # None /\ i < editing_index
                        THEN editing_index - 1
                        ELSE editing_index
    /\ hist' = [hist EXCEPT !.op = "delete", !.deletes = @ + 1,
                            !.sel = SelAfterPop(@, i),
                            !.wrong = FALSE, !.retyped = FALSE]
    /\ UNCHANGED figure

\* the Delete button of row i
Delete(i) ==
    /\ PageRenders
    /\ i \in 0..(Len(transactions) - 1)
    /\ transactions' = Pop(transactions, i)
    /\ UNCHANGED editing_index
    /\ hist' = [hist EXCEPT !.op = "delete", !.deletes = @ + 1,
                            !.sel = SelAfterPop(@, i),
                            !.wrong = FALSE, !.retyped = FALSE]
    /\ UNCHANGED figure

Next ==
    \/ \E trans_type \in Range(TypeOptions) :
         \E cat_index \in CategoryChoices(trans_type) :
           \E trans_amount \in Amounts \cup { DefaultAmount } :
             Save(trans_type, cat_index, trans_amount)
    \/ \E i \in 0..(MaxAdds - 1) : Edit(i)
    \/ \E i \in 0..(MaxAdds - 1) : Delete(i)

Spec == Init /\ [][Next]_vars

---------------------------------------------------------------------------
(* plot_dashboard on its own: every list of up to MaxDashLen transactions  *)
(* that the form can produce, and one run of plot_dashboard on it.         *)

\* the amounts of the lists: the empty form's default and floats at or
\* above min_value
DashAmounts == { DefaultAmount, MinValue, 3, 4 }

DashTransactions ==
    UNION { { new_transaction(trans_type, cat_index, trans_amount) :
                cat_index \in CategoryChoices(trans_type),
                trans_amount \in DashAmounts } :
            trans_type \in Range(TypeOptions) }

DashLists == UNION { [1..n -> DashTransactions] : n \in 1..MaxDashLen }

DashInit ==
    /\ transactions \in DashLists
    /\ editing_index = None
    /\ figure = NoFigure
    /\ hist = [HistInit EXCEPT !.adds = Len(transactions)]

\* the script reaches "Your Financial Dashboard" with a non-empty list
PlotDashboard ==
    /\ figure = NoFigure
    /\ transactions # << >>
    /\ figure' = plot_dashboard(transactions)
    /\ UNCHANGED <<transactions, editing_index, hist>>

DashNext == PlotDashboard

DashSpec == DashInit /\ [][DashNext]_vars

---------------------------------------------------------------------------
(* Properties of the session (checked under Spec) *)

Rows == 0..(MaxAdds - 1)

\* the transaction a Save submits, written out from the widgets' values
Submitted(trans_type, cat_index, trans_amount) ==
    [ type     |-> Lower(trans_type),
      category |-> (IF trans_type = "Income"
                    THEN income_categories
                    ELSE expense_categories)[cat_index + 1],
      amount   |-> trans_amount ]

\* C1: a Delete of the transaction the edit reference points at clears the
\* reference: editing_index is None in the state that follows.
DeleteClearsEditReference ==
    [][ \A i \in Rows :
          (editing_index = i /\ Delete(i)) => editing_index' = None ]_vars

\* C2: in every reachable state the edit reference is None or a position
\* of the list, so the form's lookup transactions[editing_index] succeeds
\* and the run of the script completes.
EditPositionAlwaysValid ==
    editing_index = None \/ (0 <= editing_index /\ editing_index < Len(transactions))

\* C3: a Save while editing_index = i replaces exactly the entry at
\* position i with the submitted transaction and sets editing_index to
\* None, the length and every other entry unchanged; a Save while
\* editing_index is None leaves it None.
SaveReplacesEntry ==
    [][ \A trans_type \in Range(TypeOptions) :
          \A cat_index \in CategoryChoices(trans_type) :
            \A trans_amount \in Amounts \cup { DefaultAmount } :
              Save(trans_type, cat_index, trans_amount) =>
                IF editing_index # None
                THEN /\ editing_index \in 0..(Len(transactions) - 1)
                     /\ Len(transactions') = Len(transactions)
                     /\ transactions'[editing_index + 1] =
                            Submitted(trans_type, cat_index, trans_amount)
                     /\ \A k \in 1..Len(transactions) :
                            k # editing_index + 1 =>
                                transactions'[k] = transactions[k]
                     /\ editing_index' = None
                ELSE editing_index' = None ]_vars

\* C3 happens: a Save has replaced an entry of a list of two or more.
SaveReplacedAnEntry ==
    hist.op = "update" /\ Len(transactions) >= 2 /\ editing_index = None

\* C4: an add appends the submitted transaction at the end; Delete(i)
\* removes entry i, leaves the earlier entries in place and shifts every
\* later entry down by one; the length is the number of adds minus the
\* number of deletes.
StoreKeepsInsertionOrder ==
    /\ [][ /\ \A trans_type \in Range(TypeOptions) :
                \A cat_index \in CategoryChoices(trans_type) :
                  \A trans_amount \in Amounts \cup { DefaultAmount } :
                    (editing_index = None
                        /\ Save(trans_type, cat_index, trans_amount)) =>
                      transactions' =
                        transactions \o
                          << Submitted(trans_type, cat_index, trans_amount) >>
           /\ \A i \in Rows :
                Delete(i) =>
                  /\ Len(transactions') = Len(transactions) - 1
                  /\ \A k \in 1..Len(transactions') :
                       transactions'[k] =
                         IF k <= i THEN transactions[k] ELSE transactions[k + 1]
         ]_vars
    /\ [](Len(transactions) = hist.adds - hist.deletes)

\* C4 happens: after adds and a delete, entries are left in the list.
DeletedFromLongerList ==
    hist.op = "delete" /\ hist.adds >= 2 /\ Len(transactions) >= 1

\* C5: every stored transaction's category is in the category list of
\* its own type.
CategoryMatchesType ==
    \A k \in 1..Len(transactions) :
        transactions[k].category \in
            Range(IF transactions[k].type = "income"
                  THEN income_categories
                  ELSE expense_categories)

\* C5 happens: an edit has changed the type of a stored transaction.
EditChangedType ==
    hist.op = "update" /\ hist.retyped

\* C6: every stored transaction has amount > 0, a Save with the form's
\* default amount included.
AmountsArePositive ==
    \A k \in 1..Len(transactions) : transactions[k].amount > 0

\* C9: once a Delete at or before the edited position has run, the edit
\* reference no longer points at the transaction selected by Edit (it is
\* gone, or sits one position lower), and the Save that follows overwrites
\* the entry the stale reference points at and leaves the selected
\* transaction, if it is still in the list, as it was.
StaleEditOverwritesOtherRecord ==
    [][ /\ \A j \in Rows :
             (editing_index # None /\ hist.sel = editing_index
                /\ j <= editing_index /\ Delete(j)) =>
               /\ editing_index' = editing_index
               /\ hist'.sel # editing_index'
               /\ hist'.sel = (IF j = editing_index THEN Gone
                                ELSE editing_index - 1)
        /\ \A trans_type \in Range(TypeOptions) :
             \A cat_index \in CategoryChoices(trans_type) :
               \A trans_amount \in Amounts \cup { DefaultAmount } :
                 (editing_index # None /\ hist.sel # editing_index
                    /\ Save(trans_type, cat_index, trans_amount)) =>
                   /\ transactions'[editing_index + 1] =
                          Submitted(trans_type, cat_index, trans_amount)
                   /\ hist.sel # Gone =>
                          transactions'[hist.sel + 1] = transactions[hist.sel + 1]
                   /\ hist'.wrong
      ]_vars

\* C9 happens: a Save has overwritten a transaction other than the one
\* selected by Edit.
SaveHitWrongRecord ==
    hist.op = "update" /\ hist.wrong

---------------------------------------------------------------------------
(* Properties of plot_dashboard (checked under DashSpec) *)

Plotted == figure.status = "dashboard"

\* the transactions of a type and category, in list order
Matching(ts, ty, c) ==
    SelectSeq(ts, LAMBDA t : t.type = ty /\ t.category = c)

OfType(ts, ty) == SelectSeq(ts, LAMBDA t : t.type = ty)

\* the float sum of the amounts of a list, left to right
RECURSIVE FloatSum(_, _)
FloatSum(ts, n) ==
    IF n = 0 THEN 0 ELSE FAdd(FloatSum(ts, n - 1), ts[n].amount)

\* the categories of a list in the order of their first transaction
RECURSIVE FirstSeen(_, _)
FirstSeen(ts, n) ==
    IF n = 0 THEN << >>
    ELSE LET before == FirstSeen(ts, n - 1)
         IN  IF ts[n].category \in Range(before)
             THEN before
             ELSE Append(before, ts[n].category)

\* the float sum, category by category, of the per-category sums
RECURSIVE SumByCategory(_, _, _)
SumByCategory(ts, cats, n) ==
    IF n = 0 THEN 0
    ELSE LET m == SelectSeq(ts, LAMBDA t : t.category = cats[n])
         IN  FAdd(SumByCategory(ts, cats, n - 1), FloatSum(m, Len(m)))

AllCategories == Range(income_categories) \cup Range(expense_categories)

\* a dict of the figure holds, for each category with a transaction of the
\* type, one entry with the sum of exactly those transactions, and no
\* other entry
PairTotals(ty, dict) ==
    \A c \in AllCategories :
        LET m == Matching(transactions, ty, c)
        IN  IF m = << >>
            THEN ~ DictHas(dict, c)
            ELSE /\ Cardinality({ i \in 1..Len(dict) : dict[i].key = c }) = 1
                 /\ DictGet(dict, c, 0) = FloatSum(m, Len(m))

\* C7: with total_income > 0, if total_expense > total_income then
\* displayed_expense = total_income and savings = 0; otherwise
\* displayed_expense = total_expense and savings = total_income -
\* total_expense.
AllocationCapsExpense ==
    (Plotted /\ figure.total_income > 0) =>
        IF figure.total_expense > figure.total_income
        THEN /\ figure.allocation.display_expense = figure.total_income
             /\ figure.allocation.savings = 0
        ELSE /\ figure.allocation.display_expense = figure.total_expense
             /\ figure.allocation.savings =
                    FSub(figure.total_income, figure.total_expense)

\* C7 happens: a dashboard whose expenses exceed a positive income.
ExpenseAboveIncomePlotted ==
    Plotted /\ figure.total_income > 0
            /\ figure.total_expense > figure.total_income

\* C8 as stated: per (type, category) sums, no entry for an absent pair,
\* income and expense kept apart, and total_income / total_expense equal
\* to the sums of all income / all expense amounts, with balance =
\* total_income - total_expense.
TotalsAreSumsOfAllAmounts ==
    Plotted =>
        /\ PairTotals("income", figure.income_by_cat)
        /\ PairTotals("expense", figure.expense_by_cat)
        /\ LET inc == OfType(transactions, "income")
               exp == OfType(transactions, "expense")
           IN  /\ figure.total_income = FloatSum(inc, Len(inc))
               /\ figure.total_expense = FloatSum(exp, Len(exp))
        /\ figure.balance = FSub(figure.total_income, figure.total_expense)

\* C8 as amended: per (type, category) sums, no entry for an absent pair,
\* income and expense kept apart, and total_income / total_expense equal
\* to the float sums of the per-category sums of their type, taken in the
\* order in which the categories first occur, with balance =
\* total_income - total_expense.
TotalsAreSumsOfCategorySums ==
    Plotted =>
        /\ PairTotals("income", figure.income_by_cat)
        /\ PairTotals("expense", figure.expense_by_cat)
        /\ LET inc == OfType(transactions, "income")
               exp == OfType(transactions, "expense")
               ic  == FirstSeen(inc, Len(inc))
               ec  == FirstSeen(exp, Len(exp))
           IN  /\ figure.total_income = SumByCategory(inc, ic, Len(ic))
               /\ figure.total_expense = SumByCategory(exp, ec, Len(ec))
        /\ figure.balance = FSub(figure.total_income, figure.total_expense)

\* C8 happens: a dashboard with one category name under both types and a
\* category that sums two transactions.
SharedCategoryPlotted ==
    /\ Plotted
    /\ DictHas(figure.income_by_cat, "Other/One time")
    /\ DictHas(figure.expense_by_cat, "Other/One time")
    /\ Len(Matching(transactions, "income", "Other/One time")) >= 2

\* C10 as stated: with total_income > 0, displayed_expense + savings =
\* total_income, the two are never both zero, and the branch for an
\* undefined allocation is not taken.
AllocationSumsToIncome ==
    (Plotted /\ figure.total_income > 0) =>
        /\ FAdd(figure.allocation.display_expense, figure.allocation.savings)
               = figure.total_income
        /\ ~ (figure.allocation.display_expense = 0
                /\ figure.allocation.savings = 0)
        /\ figure.allocation.branch = "pie"

\* C10 as amended: with total_income > 0, displayed_expense and savings
\* are never both zero and the branch for an undefined allocation is not
\* taken; displayed_expense + savings = total_income when total_expense
\* is zero or at least total_income.
AllocationNeverUndefined ==
    /\ (Plotted /\ figure.total_income > 0) =>
          /\ ~ (figure.allocation.display_expense = 0
                  /\ figure.allocation.savings = 0)
          /\ figure.allocation.branch = "pie"
          /\ (figure.total_expense = 0
                \/ figure.total_expense >= figure.total_income) =>
                 FAdd(figure.allocation.display_expense,
                      figure.allocation.savings) = figure.total_income
    /\ Plotted => figure.allocation.branch # "empty"

\* C10 happens: a dashboard with income and no expense, where
\* displayed_expense is zero.
SavingsOnlyPlotted ==
    /\ Plotted
    /\ figure.total_income > 0
    /\ figure.allocation.display_expense = 0
    /\ figure.allocation.savings > 0

=============================================================================
